---- MODULE Spec2Model ----
(***************************************************************************)
(* tools/process_map.py: the world map processor.                          *)
(*                                                                         *)
(*   clean_map               image array -> boolean land mask              *)
(*   generate_shallow_water  land mask, buffer -> terrain 0/1/2            *)
(*   terrain_to_image        terrain -> RGB image                          *)
(*   process_map / main      the pipeline and its exit code                *)
(*                                                                         *)
(* A grid is a function [0..h-1 -> [0..w-1 -> value]], indexed [y][x] as   *)
(* the numpy arrays are.  Distances are kept as the square of the float    *)
(* np.sqrt(dx*dx + dy*dy); np.sqrt is exact on perfect squares and         *)
(* monotone, so sqrt(n) <= b holds exactly when b >= 0 and n <= b*b.       *)
(***************************************************************************)
EXTENDS Integers, FiniteSets, Sequences, TLC

VARIABLES
    pc,             \* position in main/process_map
    gpc,            \* position in generate_shallow_water: idle, loop, returned
    image,          \* img_array: [shape |-> <<h, w>> or <<h, w, c>>, px |-> grid]
    land_threshold, \* land_threshold argument
    land_mask,      \* land_mask
    buffer_tiles,   \* buffer_tiles / shallow_buffer argument
    terrain,        \* terrain, local to generate_shallow_water
    y, x,           \* loop variables of generate_shallow_water
    result,         \* value returned by generate_shallow_water
    rgb,            \* image returned by terrain_to_image
    file,           \* state of the output path on disk
    exit_code,      \* exit code of the process, -1 while it runs
    raised,         \* an exception has been raised in process_map
    calls,          \* number of calls of generate_shallow_water made so far
    radii,          \* the radius of the first and of the second call
    first,          \* what the first call returned
    mask0,          \* the land mask as it was handed to the generator
    todo            \* cells not yet classified (any-order scan)

vars == <<pc, gpc, image, land_threshold, land_mask, buffer_tiles, terrain, y, x,
          result, rgb, file, exit_code, raised, calls, radii, first, mask0, todo>>

----------------------------------------------------------------------------
(* Bounds *)

MaxCells == 6
MaxRadius == 2
MaxCleanCells == 1

(* Program constants *)

WATER == 0
SHALLOW == 1
LAND == 2
DefaultThreshold == 128
DefaultBuffer == 2

WaterColor == <<0, 0, 0>>
ShallowColorTypo == <<0, 0, 255>>
ShallowColor == <<0, 255, 255>>
LandColor == <<255, 255, 255>>

----------------------------------------------------------------------------
(* Grids *)

NoGrid == <<>>
Height(g) == Cardinality(DOMAIN g)
Width(g) == Cardinality(DOMAIN g[0])
Cells(g) == {c \in (0..(Height(g) - 1)) \X (0..(Width(g) - 1)) : TRUE}
Grids(h, w, V) == [0..(h - 1) -> [0..(w - 1) -> V]]
ShapesUpTo(n) == {s \in (1..n) \X (1..n) : s[1] * s[2] <= n}
Shapes == ShapesUpTo(MaxCells)
Radii == (0 - 1)..MaxRadius

\* The 5x5 grids with at most one land cell, the boundary scenario among them.
ScenarioMask == [yy \in 0..4 |-> [xx \in 0..4 |-> yy = 2 /\ xx = 2]]
SparseMasks ==
    {[yy \in 0..4 |-> [xx \in 0..4 |-> <<yy, xx>> \in L]] :
        L \in {{}} \cup {{c} : c \in (0..4) \X (0..4)}}
SmallMasks == UNION {Grids(s[1], s[2], BOOLEAN) : s \in Shapes}
Masks == SmallMasks \cup SparseMasks

SetMin(S) == CHOOSE m \in S : \A n \in S : m <= n

RECURSIVE SeqSum(_)
SeqSum(s) == IF s = <<>> THEN 0 ELSE Head(s) + SeqSum(Tail(s))

----------------------------------------------------------------------------
(* generate_shallow_water *)

\* terrain = np.zeros(...); terrain[land_mask] = 2
NewTerrainShallowLand(mask) ==
    [yy \in DOMAIN mask |-> [xx \in DOMAIN mask[yy] |->
        IF mask[yy][xx] THEN SHALLOW ELSE WATER]]
NewTerrain(mask) ==
    [yy \in DOMAIN mask |-> [xx \in DOMAIN mask[yy] |->
        IF mask[yy][xx] THEN LAND ELSE WATER]]

\* range(-buffer_tiles, buffer_tiles + 1): empty for a negative buffer
WindowShort(b) == (0 - b)..(b - 1)
Window(b) == (0 - b)..b

\* 0 <= ny < height and 0 <= nx < width
InGrid(mask, ny, nx) ==
    /\ 0 <= ny /\ ny < Height(mask)
    /\ 0 <= nx /\ nx < Width(mask)

\* if land_mask[ny, nx]: the source of a promotion is the mask, never terrain
LandSourceTerrain(mask, t, ny, nx) == t[ny][nx] # WATER
LandSource(mask, t, ny, nx) == mask[ny][nx]

\* The squares of the distances dist the inner loops compute for cell (yy, xx).
Dists(mask, t, yy, xx, b) ==
    {d[1] * d[1] + d[2] * d[2] :
        d \in {e \in Window(b) \X Window(b) :
                 /\ InGrid(mask, yy + e[1], xx + e[2])
                 /\ LandSource(mask, t, yy + e[1], xx + e[2])}}

\* min_dist: float('inf') when no land cell is in the window
Inf == [finite |-> FALSE, sq |-> 0]
MinDist(mask, t, yy, xx, b) ==
    LET S == Dists(mask, t, yy, xx, b)
    IN  IF S = {} THEN Inf ELSE [finite |-> TRUE, sq |-> SetMin(S)]

\* min_dist <= buffer_tiles
DistLeqBox(d, b) == d.finite
DistEq(d, b) == d.finite /\ b >= 0 /\ d.sq = b * b
DistLeq(d, b) == d.finite /\ b >= 0 /\ d.sq <= b * b

\* if terrain[y, x] == 0
IsWaterAlways(t, yy, xx) == TRUE
IsWater(t, yy, xx) == t[yy][xx] = WATER

\* The body of the two outer loops for cell (yy, xx): the arrays afterwards.
CellStepAliased(mask, t, yy, xx, b) ==
    IF IsWater(t, yy, xx) /\ DistLeq(MinDist(mask, t, yy, xx, b), b)
    THEN [land_mask |-> [mask EXCEPT ![yy][xx] = TRUE],
          terrain |-> [t EXCEPT ![yy][xx] = SHALLOW]]
    ELSE [land_mask |-> mask, terrain |-> t]
CellStep(mask, t, yy, xx, b) ==
    IF IsWater(t, yy, xx) /\ DistLeq(MinDist(mask, t, yy, xx, b), b)
    THEN [land_mask |-> mask, terrain |-> [t EXCEPT ![yy][xx] = SHALLOW]]
    ELSE [land_mask |-> mask, terrain |-> t]

\* The whole row-major scan from cell number k on, and the function's result.
RECURSIVE ScanFrom(_, _, _, _)
ScanFrom(mask, t, k, b) ==
    IF k >= Height(mask) * Width(mask) THEN t
    ELSE LET s == CellStep(mask, t, k \div Width(mask), k % Width(mask), b)
         IN  ScanFrom(s.land_mask, s.terrain, k + 1, b)
GenerateShallowWater(mask, b) == ScanFrom(mask, NewTerrain(mask), 0, b)

\* Entry: height, width = land_mask.shape; the fresh terrain; y = x = 0.
GenEnter(mask, b) ==
    /\ gpc' = "loop"
    /\ land_mask' = mask
    /\ buffer_tiles' = b
    /\ terrain' = NewTerrain(mask)
    /\ y' = 0
    /\ x' = 0
    /\ calls' = calls + 1

\* One pass of the loop body, for cell (y, x), and the step to the next cell.
GenCell ==
    /\ gpc = "loop"
    /\ y < Height(land_mask)
    /\ LET s == CellStep(land_mask, terrain, y, x, buffer_tiles)
       IN  /\ land_mask' = s.land_mask
           /\ terrain' = s.terrain
    /\ IF x + 1 < Width(land_mask)
       THEN x' = x + 1 /\ y' = y
       ELSE x' = 0 /\ y' = y + 1
    /\ UNCHANGED <<pc, gpc, image, land_threshold, buffer_tiles, result, rgb, file,
                   exit_code, raised, calls, radii, first, mask0, todo>>

\* return terrain
GenReturn ==
    /\ gpc = "loop"
    /\ y = Height(land_mask)
    /\ gpc' = "returned"
    /\ result' = terrain
    /\ UNCHANGED <<pc, image, land_threshold, land_mask, buffer_tiles, terrain, y, x,
                   rgb, file, exit_code, raised, calls, radii, first, mask0, todo>>

----------------------------------------------------------------------------
(* The generator called twice on one land mask, with radii[1] then radii[2] *)

InitGen ==
    /\ pc = "harness"
    /\ gpc = "idle"
    /\ image = NoGrid
    /\ land_threshold = DefaultThreshold
    /\ land_mask \in Masks
    /\ mask0 = land_mask
    /\ radii \in Radii \X Radii
    /\ buffer_tiles = radii[1]
    /\ terrain = NoGrid
    /\ y = 0
    /\ x = 0
    /\ result = NoGrid
    /\ rgb = NoGrid
    /\ file = "absent"
    /\ exit_code = 0 - 1
    /\ raised = FALSE
    /\ calls = 0
    /\ first = NoGrid
    /\ todo = {}

FirstCall ==
    /\ pc = "harness"
    /\ gpc = "idle"
    /\ GenEnter(land_mask, radii[1])
    /\ UNCHANGED <<pc, image, land_threshold, result, rgb, file, exit_code, raised,
                   radii, first, mask0, todo>>

SecondCall ==
    /\ pc = "harness"
    /\ gpc = "returned"
    /\ calls = 1
    /\ first' = result
    /\ GenEnter(land_mask, radii[2])
    /\ UNCHANGED <<pc, image, land_threshold, result, rgb, file, exit_code, raised,
                   radii, mask0, todo>>

NextGen == FirstCall \/ GenCell \/ GenReturn \/ SecondCall

SpecGen == InitGen /\ [][NextGen]_vars

----------------------------------------------------------------------------
(* Properties of generate_shallow_water, checked under SpecGen *)

Returned == pc = "harness" /\ gpc = "returned"
At(g, c) == g[c[1]][c[2]]
CellsWith(g, v) == {c \in Cells(g) : At(g, c) = v}
SqDist(c, d) == (c[1] - d[1]) * (c[1] - d[1]) + (c[2] - d[2]) * (c[2] - d[2])
\* Some land cell of the whole grid lies in the closed disk of radius r around c.
LandInDisk(mask, c, r) ==
    \E d \in Cells(mask) : At(mask, d) /\ SqDist(c, d) <= r * r

\* C1: for every land mask and radius, a cell of the returned grid is LAND
\* exactly when the mask's cell is True; WATER and SHALLOW cells are never land
\* cells of the mask.
C1_LandIffMask ==
    Returned =>
        /\ Cells(result) = Cells(mask0)
        /\ \A c \in Cells(mask0) :
              /\ At(result, c) \in {WATER, SHALLOW, LAND}
              /\ (At(result, c) = LAND) <=> At(mask0, c)
C1_Witness ==
    /\ Returned
    /\ CellsWith(result, LAND) # {}
    /\ CellsWith(result, SHALLOW) # {}
    /\ CellsWith(result, WATER) # {}
    /\ \E c \in CellsWith(result, LAND) : \E d \in CellsWith(result, LAND) :
          c # d /\ SqDist(c, d) = 1

\* C2: for radius >= 0, every SHALLOW cell of the returned grid has a land cell
\* somewhere in the grid at squared distance <= radius^2, and every WATER cell
\* has none: the clipped square window misses nothing of the disk.
C2_ShallowIffLandInDisk ==
    (Returned /\ buffer_tiles >= 0) =>
        \A c \in Cells(mask0) :
            /\ At(result, c) = SHALLOW => LandInDisk(mask0, c, buffer_tiles)
            /\ At(result, c) = WATER => ~LandInDisk(mask0, c, buffer_tiles)
C2_Witness ==
    /\ Returned
    /\ buffer_tiles = 2
    \* a cell on the boundary of the disk, at the grid's edge
    /\ \E c \in CellsWith(result, SHALLOW) :
          /\ c[2] = 0
          /\ ~LandInDisk(mask0, c, 1)
          /\ \A d \in Cells(mask0) : At(mask0, d) => SqDist(c, d) >= 4
    \* a cell with land in its square window but outside the disk
    /\ \E c \in CellsWith(result, WATER) : \E d \in Cells(mask0) :
          At(mask0, d) /\ SqDist(c, d) = 5

\* C3: for radii r1 <= r2 on one mask, the SHALLOW set at r1 is a subset of the
\* SHALLOW set at r2, the LAND sets are equal, and no cell SHALLOW or LAND at r1
\* is WATER at r2.
C3_MonotoneInRadius ==
    (Returned /\ calls = 2 /\ radii[1] <= radii[2]) =>
        /\ CellsWith(first, SHALLOW) \subseteq CellsWith(result, SHALLOW)
        /\ CellsWith(first, LAND) = CellsWith(result, LAND)
        /\ \A c \in Cells(first) :
              At(first, c) \in {SHALLOW, LAND} => At(result, c) # WATER
C3_Witness ==
    /\ Returned
    /\ calls = 2
    /\ radii[1] = 1
    /\ radii[2] = 2
    /\ CellsWith(first, SHALLOW) # {}
    /\ \E c \in Cells(first) : At(first, c) = WATER /\ At(result, c) = SHALLOW

\* C4 as stated: the 5x5 mask whose only land cell is (2,2), radius 2, gives
\* 1 LAND, 20 SHALLOW and 4 WATER cells, the WATER cells being the four corners.
C4_Original ==
    (Returned /\ mask0 = ScenarioMask /\ buffer_tiles = 2) =>
        /\ Cardinality(CellsWith(result, LAND)) = 1
        /\ Cardinality(CellsWith(result, SHALLOW)) = 20
        /\ Cardinality(CellsWith(result, WATER)) = 4
        /\ CellsWith(result, WATER) = {<<0, 0>>, <<0, 4>>, <<4, 0>>, <<4, 4>>}

\* C4: the 5x5 mask whose only land cell is (2,2), radius 2, gives 1 LAND,
\* 12 SHALLOW and 12 WATER cells: the WATER cells are the four corners and the
\* eight cells one row and two columns (or two rows and one column) away from
\* the centre, at distance sqrt(5) > 2.
C4_BoundaryScenario ==
    (Returned /\ mask0 = ScenarioMask /\ buffer_tiles = 2) =>
        /\ Cardinality(CellsWith(result, LAND)) = 1
        /\ Cardinality(CellsWith(result, SHALLOW)) = 12
        /\ Cardinality(CellsWith(result, WATER)) = 12
        /\ CellsWith(result, WATER) =
              {<<0, 0>>, <<0, 4>>, <<4, 0>>, <<4, 4>>,
               <<0, 1>>, <<0, 3>>, <<1, 0>>, <<1, 4>>,
               <<3, 0>>, <<3, 4>>, <<4, 1>>, <<4, 3>>}
C4_Witness ==
    /\ Returned
    /\ mask0 = ScenarioMask
    /\ buffer_tiles = 2
    /\ At(result, <<2, 2>>) = LAND
    /\ At(result, <<0, 2>>) = SHALLOW

\* C5: radius 0 gives no SHALLOW cell: non-land cells stay WATER, land cells
\* are LAND.
C5_RadiusZero ==
    (Returned /\ buffer_tiles = 0) =>
        \A c \in Cells(mask0) :
            /\ At(result, c) # SHALLOW
            /\ At(mask0, c) => At(result, c) = LAND
            /\ ~At(mask0, c) => At(result, c) = WATER
C5_Witness ==
    /\ Returned
    /\ buffer_tiles = 0
    /\ \E c \in Cells(mask0) : \E d \in Cells(mask0) :
          At(mask0, c) /\ ~At(mask0, d) /\ SqDist(c, d) = 1

\* C6: two calls on the same mask and radius return identical grids, and a
\* call never changes the land mask it was given.
C6_SameResultMaskUntouched ==
    /\ land_mask = mask0
    /\ (Returned /\ calls = 2 /\ radii[1] = radii[2]) => result = first
C6_Witness ==
    /\ Returned
    /\ calls = 2
    /\ radii[1] = radii[2]
    /\ CellsWith(result, SHALLOW) # {}
    /\ CellsWith(result, WATER) # {}

----------------------------------------------------------------------------
(* The loop body of generate_shallow_water run once per cell in any order:  *)
(* every scan order, and every interleaving of workers that own rows.       *)

InitPar ==
    /\ pc = "harness"
    /\ gpc = "loop"
    /\ image = NoGrid
    /\ land_threshold = DefaultThreshold
    /\ land_mask \in SmallMasks
    /\ mask0 = land_mask
    /\ buffer_tiles \in Radii
    /\ radii = <<buffer_tiles, buffer_tiles>>
    /\ terrain = NewTerrain(land_mask)
    /\ y = 0
    /\ x = 0
    /\ result = NoGrid
    /\ rgb = NoGrid
    /\ file = "absent"
    /\ exit_code = 0 - 1
    /\ raised = FALSE
    /\ calls = 1
    /\ first = NoGrid
    /\ todo = Cells(land_mask)

\* The loop body for any cell still to do (a worker's own y and x are not kept).
ParCell ==
    /\ gpc = "loop"
    /\ \E c \in todo :
          /\ LET s == CellStep(land_mask, terrain, c[1], c[2], buffer_tiles)
             IN  /\ land_mask' = s.land_mask
                 /\ terrain' = s.terrain
          /\ todo' = todo \ {c}
    /\ UNCHANGED <<pc, gpc, image, land_threshold, buffer_tiles, y, x, result, rgb,
                   file, exit_code, raised, calls, radii, first, mask0>>

\* The join: every cell is done, the grid is returned.
ParReturn ==
    /\ gpc = "loop"
    /\ todo = {}
    /\ gpc' = "returned"
    /\ result' = terrain
    /\ UNCHANGED <<pc, image, land_threshold, land_mask, buffer_tiles, terrain, y, x,
                   rgb, file, exit_code, raised, calls, radii, first, mask0, todo>>

NextPar == ParCell \/ ParReturn

SpecPar == InitPar /\ [][NextPar]_vars

\* C10: a cell's class depends on the land mask and the radius alone, never on
\* what was written for another cell: whatever the order in which the cells are
\* classified, each classified cell holds what the sequential row-major scan
\* gives it, and the joined grid is the sequential scan's grid.
C10_OrderIndependent ==
    LET seq == GenerateShallowWater(mask0, buffer_tiles)
    IN  /\ \A c \in Cells(mask0) \ todo : At(terrain, c) = At(seq, c)
        /\ gpc = "returned" => result = seq
\* A cell promoted out of row-major order, next to an earlier water cell that
\* is still to do.
C10_Witness ==
    /\ gpc = "loop"
    /\ \E c \in todo : \E d \in Cells(mask0) \ todo :
          /\ ~At(mask0, c)
          /\ At(terrain, d) = SHALLOW
          /\ SqDist(c, d) = 1
          /\ c[1] * Width(mask0) + c[2] < d[1] * Width(mask0) + d[2]
          /\ ~LandInDisk(mask0, c, buffer_tiles)

----------------------------------------------------------------------------
(* clean_map *)

\* np.mean(image_array, axis=2) for a 3-dimensional array, the pixel itself
\* otherwise; the mean is kept as the fraction sum/channels.  A pixel is the
\* sequence of its channel values, of length one in a 2-dimensional array.
Grayscale(img) ==
    [yy \in DOMAIN img.px |-> [xx \in DOMAIN img.px[yy] |->
        IF Len(img.shape) = 3
        THEN [num |-> SeqSum(img.px[yy][xx]), den |-> Len(img.px[yy][xx])]
        ELSE [num |-> img.px[yy][xx][1], den |-> 1]]]

\* grayscale > land_threshold, for an integer threshold
GreaterOrEqual(q, t) == q.num >= t * q.den
GreaterThan(q, t) == q.num > t * q.den

\* is_land
CleanMapOf(img, t) ==
    LET g == Grayscale(img)
    IN  [yy \in DOMAIN g |-> [xx \in DOMAIN g[yy] |-> GreaterThan(g[yy][xx], t)]]

\* land_mask = clean_map(img_array, land_threshold)
CleanMap ==
    /\ pc = "clean"
    /\ land_mask' = CleanMapOf(image, land_threshold)
    /\ pc' = "generate"
    /\ UNCHANGED <<gpc, image, land_threshold, buffer_tiles, terrain, y, x, result, rgb,
                   file, exit_code, raised, calls, radii, first, mask0, todo>>

GrayValues == [1..1 -> {0, 50, 127, 128, 129, 200, 255}]
RGBValues == [1..3 -> {127, 128, 129}]
RGBAValues == [1..4 -> {127, 129}]
Thresholds == {0, 127, DefaultThreshold, 255}
CleanShapes == ShapesUpTo(MaxCleanCells)
CleanImages ==
    UNION {{[shape |-> s, px |-> g] : g \in Grids(s[1], s[2], GrayValues)}
           \cup {[shape |-> s \o <<3>>, px |-> g] : g \in Grids(s[1], s[2], RGBValues)}
           \cup {[shape |-> s \o <<4>>, px |-> g] : g \in Grids(s[1], s[2], RGBAValues)}
           : s \in CleanShapes}

InitClean ==
    /\ pc = "clean"
    /\ gpc = "idle"
    /\ image \in CleanImages
    /\ land_threshold \in Thresholds
    /\ land_mask = NoGrid
    /\ mask0 = NoGrid
    /\ buffer_tiles = DefaultBuffer
    /\ radii = <<DefaultBuffer, DefaultBuffer>>
    /\ terrain = NoGrid
    /\ y = 0
    /\ x = 0
    /\ result = NoGrid
    /\ rgb = NoGrid
    /\ file = "absent"
    /\ exit_code = 0 - 1
    /\ raised = FALSE
    /\ calls = 0
    /\ first = NoGrid
    /\ todo = {}

NextClean == CleanMap

SpecClean == InitClean /\ [][NextClean]_vars

\* The brightness of a pixel strictly exceeds t: the pixel value itself, or the
\* unweighted mean of the channels (its integer part exceeds t, or equals t
\* with a remainder left).
Brighter(img, c, t) ==
    LET p == At(img.px, c)
    IN  IF Len(img.shape) = 2 THEN p[1] > t
        ELSE LET n == Len(p)
                 sum == SeqSum(p)
             IN  \/ sum \div n > t
                 \/ sum \div n = t /\ sum % n > 0

\* C7: clean_map marks a cell land exactly when its brightness (the pixel
\* value, or the unweighted mean of the channels) strictly exceeds the
\* threshold; brightness equal to the threshold is water; 200 against 128 is
\* land and 50 against 128 is water.
C7_LandIffBrighter ==
    pc = "generate" =>
        /\ Cells(land_mask) = Cells(image.px)
        /\ \A c \in Cells(image.px) : At(land_mask, c) <=> Brighter(image, c, land_threshold)
        /\ \A c \in Cells(image.px) :
              (Len(image.shape) = 2 /\ land_threshold = 128) =>
                  /\ At(image.px, c) = <<200>> => At(land_mask, c)
                  /\ At(image.px, c) = <<50>> => ~At(land_mask, c)
                  /\ At(image.px, c) = <<128>> => ~At(land_mask, c)
\* A grayscale pixel equal to the threshold, and in another run a colour pixel
\* whose mean lies strictly between the threshold and the threshold plus one.
C7_WitnessGray ==
    /\ pc = "generate"
    /\ Len(image.shape) = 2
    /\ \E c \in Cells(image.px) : At(image.px, c) = <<land_threshold>> /\ ~At(land_mask, c)
C7_Witness ==
    /\ pc = "generate"
    /\ Len(image.shape) = 3
    /\ land_threshold = 128
    /\ \E c \in Cells(image.px) :
          /\ At(image.px, c) = <<128, 128, 129>>
          /\ At(land_mask, c)

----------------------------------------------------------------------------
(* terrain_to_image *)

\* rgb = np.zeros((height, width, 3))
ZerosRGB(t) == [yy \in DOMAIN t |-> [xx \in DOMAIN t[yy] |-> <<0, 0, 0>>]]
\* rgb[terrain == v] = colour
AssignWhere(img, t, v, colour) ==
    [yy \in DOMAIN t |-> [xx \in DOMAIN t[yy] |->
        IF t[yy][xx] = v THEN colour ELSE img[yy][xx]]]
TerrainToImageOf(t) ==
    LET water == AssignWhere(ZerosRGB(t), t, WATER, WaterColor)
        shallow == AssignWhere(water, t, SHALLOW, ShallowColor)
    IN  AssignWhere(shallow, t, LAND, LandColor)

\* output_img = terrain_to_image(terrain)
TerrainToImage ==
    /\ pc = "encode"
    /\ rgb' = TerrainToImageOf(result)
    /\ pc' = "save"
    /\ UNCHANGED <<gpc, image, land_threshold, land_mask, buffer_tiles, terrain, y, x,
                   result, file, exit_code, raised, calls, radii, first, mask0, todo>>

Terrains == UNION {Grids(s[1], s[2], {WATER, SHALLOW, LAND}) : s \in Shapes}

InitEnc ==
    /\ pc = "encode"
    /\ gpc = "idle"
    /\ image = NoGrid
    /\ land_threshold = DefaultThreshold
    /\ land_mask = NoGrid
    /\ mask0 = NoGrid
    /\ buffer_tiles = DefaultBuffer
    /\ radii = <<DefaultBuffer, DefaultBuffer>>
    /\ terrain = NoGrid
    /\ y = 0
    /\ x = 0
    /\ result \in Terrains
    /\ rgb = NoGrid
    /\ file = "absent"
    /\ exit_code = 0 - 1
    /\ raised = FALSE
    /\ calls = 0
    /\ first = NoGrid
    /\ todo = {}

NextEnc == TerrainToImage

SpecEnc == InitEnc /\ [][NextEnc]_vars

\* C8: terrain_to_image maps WATER to (0,0,0), SHALLOW to (0,255,255) and LAND
\* to (255,255,255); the image has the terrain's height and width, holds only
\* these three colours, and distinct terrain values get distinct colours.
C8_ColourTable ==
    pc = "save" =>
        /\ Cells(rgb) = Cells(result)
        /\ Height(rgb) = Height(result) /\ Width(rgb) = Width(result)
        /\ \A c \in Cells(result) :
              /\ At(result, c) = 0 => At(rgb, c) = <<0, 0, 0>>
              /\ At(result, c) = 1 => At(rgb, c) = <<0, 255, 255>>
              /\ At(result, c) = 2 => At(rgb, c) = <<255, 255, 255>>
              /\ At(rgb, c) \in {<<0, 0, 0>>, <<0, 255, 255>>, <<255, 255, 255>>}
        /\ \A c \in Cells(result) : \A d \in Cells(result) :
              At(result, c) # At(result, d) => At(rgb, c) # At(rgb, d)
\* The colour-encoding scenario [[WATER, SHALLOW], [LAND, WATER]].
C8_Witness ==
    /\ pc = "save"
    /\ result = [yy \in 0..1 |-> [xx \in 0..1 |->
                    IF yy = 0 THEN (IF xx = 0 THEN 0 ELSE 1)
                    ELSE (IF xx = 0 THEN 2 ELSE 0)]]
    /\ At(rgb, <<0, 1>>) = <<0, 255, 255>>
    /\ At(rgb, <<1, 0>>) = <<255, 255, 255>>
    /\ At(rgb, <<1, 1>>) = <<0, 0, 0>>

----------------------------------------------------------------------------
(* process_map and main: one run of the pipeline *)

PipePixels == [1..1 -> {100, 200}]
PipeImages ==
    UNION {{[shape |-> s, px |-> g] : g \in Grids(s[1], s[2], PipePixels)} : s \in Shapes}

\* The state at the call of process_map: the input file decodes to image, the
\* output path holds nothing or a file of an earlier run.
Init ==
    /\ pc = "open"
    /\ gpc = "idle"
    /\ image \in PipeImages
    /\ land_threshold = DefaultThreshold
    /\ land_mask = NoGrid
    /\ mask0 = NoGrid
    /\ buffer_tiles \in Radii
    /\ radii = <<buffer_tiles, buffer_tiles>>
    /\ terrain = NoGrid
    /\ y = 0
    /\ x = 0
    /\ result = NoGrid
    /\ rgb = NoGrid
    /\ file \in {"absent", "previous"}
    /\ exit_code = 0 - 1
    /\ raised = FALSE
    /\ calls = 0
    /\ first = NoGrid
    /\ todo = {}

\* img = Image.open(input_path); img_array = np.array(img)
OpenImage ==
    /\ pc = "open"
    /\ pc' = "clean"
    /\ UNCHANGED <<gpc, image, land_threshold, land_mask, buffer_tiles, terrain, y, x,
                   result, rgb, file, exit_code, raised, calls, radii, first, mask0, todo>>

\* terrain = generate_shallow_water(land_mask, shallow_buffer): the call
CallGenerate ==
    /\ pc = "generate"
    /\ gpc = "idle"
    /\ GenEnter(land_mask, buffer_tiles)
    /\ mask0' = land_mask
    /\ pc' = "in_generate"
    /\ UNCHANGED <<image, land_threshold, result, rgb, file, exit_code, raised, radii,
                   first, todo>>

\* ... and its return; the terrain counts are printed
CountTerrain ==
    /\ pc = "in_generate"
    /\ gpc = "returned"
    /\ gpc' = "idle"
    /\ pc' = "encode"
    /\ UNCHANGED <<image, land_threshold, land_mask, buffer_tiles, terrain, y, x, result,
                   rgb, file, exit_code, raised, calls, radii, first, mask0, todo>>

\* output_img.save(output_path) returns: the file holds the whole image
SaveImage ==
    /\ pc = "save"
    /\ file' = "complete"
    /\ pc' = "report"
    /\ UNCHANGED <<gpc, image, land_threshold, land_mask, buffer_tiles, terrain, y, x,
                   result, rgb, exit_code, raised, calls, radii, first, mask0, todo>>

\* The frames of process_map and below are unwound: its locals are gone.
Unwind ==
    /\ raised' = TRUE
    /\ pc' = "caught"
    /\ gpc' = "idle"
    /\ image' = NoGrid
    /\ land_mask' = NoGrid
    /\ mask0' = NoGrid
    /\ terrain' = NoGrid
    /\ y' = 0
    /\ x' = 0
    /\ result' = NoGrid
    /\ rgb' = NoGrid
    /\ UNCHANGED <<land_threshold, buffer_tiles, exit_code, calls, radii, first, todo>>

\* output_img.save(output_path) raises: process_map writes straight to the
\* output path and nothing removes or restores the file, so the path holds
\* what it held (the failure came before the file was opened) or a part of
\* the image.
SaveRaises ==
    /\ pc = "save"
    /\ file' \in {file, "partial"}
    /\ Unwind

\* Any other statement of process_map raises; none of them touches the file.
Raise ==
    /\ pc \in {"open", "clean", "generate", "in_generate", "encode", "report"}
    /\ file' = file
    /\ Unwind

\* print(f"Saved ..."), the next-step hint; process_map returns
Report ==
    /\ pc = "report"
    /\ pc' = "returned"
    /\ UNCHANGED <<gpc, image, land_threshold, land_mask, buffer_tiles, terrain, y, x,
                   result, rgb, file, exit_code, raised, calls, radii, first, mask0, todo>>

\* except Exception as e: print(...); sys.exit(1)
Caught ==
    /\ pc = "caught"
    /\ exit_code' = 1
    /\ pc' = "exit"
    /\ UNCHANGED <<gpc, image, land_threshold, land_mask, buffer_tiles, terrain, y, x,
                   result, rgb, file, raised, calls, radii, first, mask0, todo>>

\* main returns: the interpreter exits with 0
MainReturn ==
    /\ pc = "returned"
    /\ exit_code' = 0
    /\ pc' = "exit"
    /\ UNCHANGED <<gpc, image, land_threshold, land_mask, buffer_tiles, terrain, y, x,
                   result, rgb, file, raised, calls, radii, first, mask0, todo>>

Next ==
    \/ OpenImage
    \/ CleanMap
    \/ CallGenerate
    \/ GenCell
    \/ GenReturn
    \/ CountTerrain
    \/ TerrainToImage
    \/ SaveImage
    \/ SaveRaises
    \/ Raise
    \/ Report
    \/ Caught
    \/ MainReturn

Spec == Init /\ [][Next]_vars

\* C9: the output file is written only after the full terrain grid is
\* computed; a failure in any stage ends the run with exit code 1 and no
\* partial output file; a run with no failure ends with exit code 0.
C9_NoPartialOutput ==
    /\ file \in {"partial", "complete"} => calls = 1 /\ pc \in {"report", "returned", "caught", "exit"}
    /\ pc = "exit" => exit_code = (IF raised THEN 1 ELSE 0)
    /\ (pc = "exit" /\ raised) => file # "partial"
    /\ (pc = "exit" /\ ~raised) => file = "complete"

\* What does hold of a run: the file changes only in the save step, taken with
\* the terrain of the whole grid computed and encoded; a failure before the
\* save step leaves the file as it was; the exit code is 1 after a failure and
\* 0 otherwise, and then the file is complete.
PipelineOrder ==
    /\ pc \in {"open", "clean", "generate", "in_generate", "encode", "save"} =>
          file \in {"absent", "previous"}
    /\ pc = "save" =>
          /\ result = GenerateShallowWater(land_mask, buffer_tiles)
          /\ rgb = TerrainToImageOf(result)
    /\ pc = "exit" => exit_code = (IF raised THEN 1 ELSE 0)
    /\ (pc = "exit" /\ ~raised) => file = "complete"
    /\ file = "partial" => raised

====
